---- MODULE Spec2Model ----
(***************************************************************************)
(* Model of text_gen.py: n-gram model construction and random text        *)
(* generation.                                                             *)
(*                                                                         *)
(* Words are strings.  A probability is kept as the pair <<num, den>> of   *)
(* the division  num / float(den)  the code performs, so that sums and     *)
(* comparisons are exact.  A dictionary is a function; its enumeration     *)
(* order is a sequence listing its keys.  A text under construction is a   *)
(* sequence of pieces, each a word or the separator " ".                   *)
(***************************************************************************)
EXTENDS Integers, Sequences, FiniteSets, TLC

\* ---------------------------------------------------------------- bounds
MaxLen == 4
MaxCount == 4
MinCount == 0 - 1

Words == {"a", "b", "c"}
WordOrder == <<"a", "b", "c">>
SP == " "
EmptyDict == <<>>
NoValue == <<"None">>

\* ------------------------------------------------------------ arithmetic
Zero == <<0, 1>>

Abs(x) == IF x < 0 THEN 0 - x ELSE x

\* float addition "total += value"
Add(x, y) ==
    IF x[1] = 0 THEN y
    ELSE IF y[1] = 0 THEN x
    ELSE IF x[2] = y[2] THEN <<x[1] + y[1], x[2]>>
    ELSE <<x[1] * y[2] + y[1] * x[2], x[2] * y[2]>>

\* float comparison "x < y"
Less(x, y) ==
    IF x[2] = y[2] THEN x[1] < y[1]
    ELSE x[1] * y[2] < y[1] * x[2]

\* the tolerance .000001 of the assertion, as its reciprocal
ToleranceInv == 1000000

\* dictionary update d[k] = v
Put(d, k, v) == [x \in (DOMAIN d) \cup {k} |-> IF x = k THEN v ELSE d[x]]

\* the keys of a dictionary of words in its enumeration order
enumerate(d) == SelectSeq(WordOrder, LAMBDA w : w \in DOMAIN d)

\* ------------------------------------------------ counts_to_probabilities
RECURSIVE sum_counts(_, _, _)
sum_counts(counts, order, k) ==
    IF k > Len(order) THEN 0
    ELSE counts[order[k]] + sum_counts(counts, order, k + 1)

\* counts[item] / float(total) divides by zero when some item exists and
\* the total is 0; an empty table never reaches the division
counts_to_probabilities_raises(counts) ==
    /\ DOMAIN counts # {}
    /\ sum_counts(counts, enumerate(counts), 1) = 0

counts_to_probabilities(counts) ==
    LET total == sum_counts(counts, enumerate(counts), 1)
    IN [item \in DOMAIN counts |-> <<counts[item], total>>]

\* ---------------------------------------------------- calculate_unigrams
RECURSIVE count_words(_, _, _)
count_words(word_list, k, unigrams) ==
    IF k > Len(word_list) THEN unigrams
    ELSE LET word == word_list[k]
         IN count_words(word_list, k + 1,
                IF word \in DOMAIN unigrams
                THEN Put(unigrams, word, unigrams[word] + 1)
                ELSE Put(unigrams, word, 1))

calculate_unigrams_raises(word_list) ==
    counts_to_probabilities_raises(count_words(word_list, 1, EmptyDict))

calculate_unigrams(word_list) ==
    counts_to_probabilities(count_words(word_list, 1, EmptyDict))

\* ----------------------------------------------------- calculate_bigrams
\* zip(word_list, word_list[1:]) with every adjacent pair but the last
zip2_short(word_list) ==
    [k \in 1..(Len(word_list) - 2) |-> <<word_list[k], word_list[k + 1]>>]

\* zip(word_list, word_list[1:])
zip2(word_list) ==
    [k \in 1..(Len(word_list) - 1) |-> <<word_list[k], word_list[k + 1]>>]

\* zip(word_list, word_list[1:], word_list[2:])
zip3(word_list) ==
    [k \in 1..(Len(word_list) - 2) |->
        <<word_list[k], word_list[k + 1], word_list[k + 2]>>]

\* a loop body that normalises the context before counting the new pair
bigram_step_stale(st, word) ==
    LET b1 == IF word[1] \in DOMAIN st.bigrams THEN st.bigrams
              ELSE Put(st.bigrams, word[1], EmptyDict)
        row == b1[word[1]]
        row2 == IF word[2] \notin DOMAIN row THEN Put(row, word[2], 1)
                ELSE Put(row, word[2], row[word[2]] + 1)
    IN [bigrams |-> Put(b1, word[1], row2),
        tmp |-> IF word[1] \in DOMAIN st.tmp
                THEN Put(st.tmp, word[1], st.tmp[word[1]])
                ELSE Put(st.tmp, word[1], counts_to_probabilities(row2))]

\* one iteration of the loop of calculate_bigrams
bigram_step(st, word) ==
    LET b1 == IF word[1] \notin DOMAIN st.bigrams
              THEN Put(st.bigrams, word[1], EmptyDict)
              ELSE st.bigrams
        row == b1[word[1]]
        row2 == IF word[2] \notin DOMAIN row THEN Put(row, word[2], 1)
                ELSE Put(row, word[2], row[word[2]] + 1)
    IN [bigrams |-> Put(b1, word[1], row2),
        tmp |-> Put(st.tmp, word[1], counts_to_probabilities(row2))]

RECURSIVE bigram_loop(_, _, _)
bigram_loop(pairs, k, st) ==
    IF k > Len(pairs) THEN st
    ELSE bigram_loop(pairs, k + 1, bigram_step(st, pairs[k]))

calculate_bigrams(word_list) ==
    bigram_loop(zip2(word_list), 1,
                [bigrams |-> EmptyDict, tmp |-> EmptyDict]).tmp

\* ---------------------------------------------------- calculate_trigrams
\* one iteration of the loop of calculate_trigrams
trigram_step(st, word) ==
    LET key == <<word[1], word[2]>>
        row2 == IF key \notin DOMAIN st.trigrams THEN Put(EmptyDict, word[3], 1)
                ELSE IF word[3] \notin DOMAIN st.trigrams[key]
                     THEN Put(st.trigrams[key], word[3], 1)
                     ELSE Put(st.trigrams[key], word[3],
                              st.trigrams[key][word[3]] + 1)
    IN [trigrams |-> Put(st.trigrams, key, row2),
        tmp |-> Put(st.tmp, key, counts_to_probabilities(row2))]

RECURSIVE trigram_loop(_, _, _)
trigram_loop(triples, k, st) ==
    IF k > Len(triples) THEN st
    ELSE trigram_loop(triples, k + 1, trigram_step(st, triples[k]))

calculate_trigrams(word_list) ==
    trigram_loop(zip3(word_list), 1,
                 [trigrams |-> EmptyDict, tmp |-> EmptyDict]).tmp

\* --------------------------------------------------------- select_random
RECURSIVE sum_values(_, _, _)
\* sum(distribution.values())
sum_values(distribution, order, k) ==
    IF k > Len(order) THEN Zero
    ELSE Add(distribution[order[k]], sum_values(distribution, order, k + 1))

\* abs(s - 1.0) < .000001
sum_close(s) == Abs(s[1] - s[2]) <= (s[2] - 1) \div ToleranceInv

\* the loop test with "<=" in place of "<"
exceeds_or_equals(total, r) == ~ Less(total, r)

\* the loop test "r < total"
exceeds(total, r) == Less(r, total)

RECURSIVE select_scan(_, _, _, _, _)
\* the for loop of select_random from position k on, and its fall-through
select_scan(distribution, order, k, total, r) ==
    IF k > Len(order) THEN "AssertionError"
    ELSE LET t == Add(total, distribution[order[k]])
         IN IF exceeds(t, r) THEN order[k]
            ELSE select_scan(distribution, order, k + 1, t, r)

select_random(distribution, order, r) ==
    IF ~ sum_close(sum_values(distribution, order, 1)) THEN "AssertionError"
    ELSE select_scan(distribution, order, 1, Zero, r)

RECURSIVE cum_num(_, _, _)
\* numerator of the cumulative sum of the first k values
cum_num(distribution, order, k) ==
    IF k = 0 THEN 0
    ELSE distribution[order[k]][1] + cum_num(distribution, order, k - 1)

\* random.random(): values of [0, 1), one on each side of every cumulative
\* sum and the two ends of the interval, over the distribution's denominator
random_draws(distribution, order) ==
    IF Len(order) = 0 THEN {Zero}
    ELSE LET den == distribution[order[1]][2]
             cuts == {cum_num(distribution, order, k) : k \in 1..Len(order)}
         IN {<<n, den>> : n \in ({0, den - 1} \cup cuts \cup {c - 1 : c \in cuts})
                                  \cap (0..(den - 1))}

\* every value one call select_random(distribution) can return
Outcomes(distribution) ==
    {select_random(distribution, enumerate(distribution), r) :
        r \in random_draws(distribution, enumerate(distribution))}

\* ------------------------------------------------------------ generation
\* range(num_words) in random_unigram_text
unigram_range(n) == n

\* xrange(num_words - 2) running one time too many
bigram_range_over(n) == n - 1

\* xrange(num_words - 2) in random_bigram_text
bigram_range(n) == n - 2

\* the loop drawing from the seed's distribution every time
bigram_context_seed(first, next) == first

\* the key of the lookup bigrams[next_word] in the loop
bigram_context(first, next) == next

\* xrange(num_words - 2) in random_trigram_text
trigram_range(n) == n - 2

\* the fallback keyed by the newer context word
fallback_key_newer(first, second) == second

\* the key of the fallback lookup bigrams[first_word]
fallback_key(first, second) == first

RECURSIVE rstrip(_)
\* result.rstrip()
rstrip(s) ==
    IF Len(s) > 0 /\ s[Len(s)] = SP THEN rstrip(SubSeq(s, 1, Len(s) - 1))
    ELSE s

\* the words of a text
split(s) == SelectSeq(s, LAMBDA x : x # SP)

VARIABLES word_list, unigrams, bigrams, trigrams, build_exc,
          pc, fn, seed, num_words, first_word, second_word, next_word,
          i, result, ret, exc, lookup,
          distribution, order, r, sel_pc, sel_ret

model_vars == <<word_list, unigrams, bigrams, trigrams, build_exc>>
call_vars == <<fn, seed, num_words>>
gen_vars == <<pc, first_word, second_word, next_word, i, result, ret, exc, lookup>>
sample_vars == <<distribution, order, r, sel_pc, sel_ret>>
vars == <<model_vars, call_vars, gen_vars, sample_vars>>

NoLookup == [table |-> "none", key |-> <<>>]
NoDraw == <<0 - 1, 1>>

WordLists == UNION {[1..n -> Words] : n \in 0..MaxLen}
Counts == MinCount..MaxCount

GenIdle ==
    /\ fn = "none" /\ seed = <<>> /\ num_words = 0
    /\ first_word = "" /\ second_word = "" /\ next_word = ""
    /\ i = 0 /\ result = <<>> /\ ret = NoValue /\ exc = "none"
    /\ lookup = NoLookup

SampleIdle ==
    /\ distribution = EmptyDict /\ order = <<>> /\ r = NoDraw
    /\ sel_pc = "off" /\ sel_ret = ""

Init ==
    /\ word_list \in WordLists
    /\ unigrams = EmptyDict /\ bigrams = EmptyDict /\ trigrams = EmptyDict
    /\ build_exc = "none"
    /\ pc = "init"
    /\ GenIdle
    /\ SampleIdle

\* the first lines of unigram_main, bigram_main and trigram_main
Build ==
    /\ pc = "init"
    /\ build_exc' = IF calculate_unigrams_raises(word_list)
                    THEN "ZeroDivisionError" ELSE "none"
    /\ unigrams' = IF calculate_unigrams_raises(word_list) THEN EmptyDict
                   ELSE calculate_unigrams(word_list)
    /\ bigrams' = calculate_bigrams(word_list)
    /\ trigrams' = calculate_trigrams(word_list)
    /\ pc' = "idle"
    /\ UNCHANGED <<word_list, call_vars, first_word, second_word, next_word,
                   i, result, ret, exc, lookup, sample_vars>>

Raise(kind) == pc' = "raised" /\ exc' = kind

\* ---- random_unigram_text
CallUnigram ==
    /\ pc = "idle" /\ build_exc = "none"
    /\ \E n \in Counts :
        /\ fn' = "unigram" /\ num_words' = n /\ seed' = <<>>
    /\ result' = <<>> /\ i' = 0
    /\ pc' = "uni"
    /\ UNCHANGED <<model_vars, first_word, second_word, next_word, ret, exc,
                   lookup, sample_vars>>

UnigramStep ==
    /\ pc = "uni" /\ i < unigram_range(num_words)
    /\ lookup' = [table |-> "uni", key |-> <<>>]
    /\ \E w \in Outcomes(unigrams) :
        IF w = "AssertionError"
        THEN Raise(w) /\ UNCHANGED <<next_word, result, i>>
        ELSE /\ next_word' = w
             /\ result' = result \o <<w, SP>>
             /\ i' = i + 1
             /\ UNCHANGED <<pc, exc>>
    /\ UNCHANGED <<model_vars, call_vars, first_word, second_word, ret,
                   sample_vars>>

UnigramReturn ==
    /\ pc = "uni" /\ ~ (i < unigram_range(num_words))
    /\ ret' = rstrip(result)
    /\ pc' = "returned"
    /\ UNCHANGED <<model_vars, call_vars, first_word, second_word, next_word,
                   i, result, exc, lookup, sample_vars>>

\* ---- random_bigram_text
CallBigram ==
    /\ pc = "idle"
    /\ \E w \in Words, n \in Counts :
        /\ fn' = "bigram" /\ num_words' = n /\ seed' = <<w>>
        /\ first_word' = w
    /\ result' = <<>> /\ i' = 0
    /\ pc' = "bi0"
    /\ UNCHANGED <<model_vars, second_word, next_word, ret, exc, lookup,
                   sample_vars>>

\* lines 235-236
BigramFirst ==
    /\ pc = "bi0"
    /\ lookup' = [table |-> "bi", key |-> <<first_word>>]
    /\ IF first_word \notin DOMAIN bigrams
       THEN Raise("KeyError") /\ UNCHANGED <<next_word, result>>
       ELSE \E w \in Outcomes(bigrams[first_word]) :
            IF w = "AssertionError"
            THEN Raise(w) /\ UNCHANGED <<next_word, result>>
            ELSE /\ next_word' = w
                 /\ result' = result \o <<first_word, SP, w, SP>>
                 /\ pc' = "bi"
                 /\ UNCHANGED exc
    /\ UNCHANGED <<model_vars, call_vars, first_word, second_word, i, ret,
                   sample_vars>>

\* lines 237-239
BigramStep ==
    /\ pc = "bi" /\ i < bigram_range(num_words)
    /\ LET key == bigram_context(first_word, next_word)
       IN
       /\ lookup' = [table |-> "bi", key |-> <<key>>]
       /\ IF key \notin DOMAIN bigrams
          THEN Raise("KeyError") /\ UNCHANGED <<next_word, result, i>>
          ELSE \E w \in Outcomes(bigrams[key]) :
            IF w = "AssertionError"
            THEN Raise(w) /\ UNCHANGED <<next_word, result, i>>
            ELSE /\ next_word' = w
                 /\ result' = result \o <<w, SP>>
                 /\ i' = i + 1
                 /\ UNCHANGED <<pc, exc>>
    /\ UNCHANGED <<model_vars, call_vars, first_word, second_word, ret,
                   sample_vars>>

BigramReturn ==
    /\ pc = "bi" /\ ~ (i < bigram_range(num_words))
    /\ ret' = rstrip(result)
    /\ pc' = "returned"
    /\ UNCHANGED <<model_vars, call_vars, first_word, second_word, next_word,
                   i, result, exc, lookup, sample_vars>>

\* ---- random_trigram_text
CallTrigram ==
    /\ pc = "idle"
    /\ \E w1 \in Words, w2 \in Words, n \in Counts :
        /\ fn' = "trigram" /\ num_words' = n /\ seed' = <<w1, w2>>
        /\ first_word' = w1 /\ second_word' = w2
    /\ result' = <<>> /\ i' = 0
    /\ pc' = "tri0"
    /\ UNCHANGED <<model_vars, next_word, ret, exc, lookup, sample_vars>>

\* lines 266-267
TrigramFirst ==
    /\ pc = "tri0"
    /\ result' = result \o <<first_word, SP, second_word, SP>>
    /\ lookup' = [table |-> "tri", key |-> <<first_word, second_word>>]
    /\ IF <<first_word, second_word>> \notin DOMAIN trigrams
       THEN Raise("KeyError") /\ UNCHANGED next_word
       ELSE \E w \in Outcomes(trigrams[<<first_word, second_word>>]) :
            IF w = "AssertionError"
            THEN Raise(w) /\ UNCHANGED next_word
            ELSE /\ next_word' = w
                 /\ pc' = "tri"
                 /\ UNCHANGED exc
    /\ UNCHANGED <<model_vars, call_vars, first_word, second_word, i, ret,
                   sample_vars>>

\* lines 269-278
TrigramStep ==
    /\ pc = "tri" /\ i < trigram_range(num_words)
    /\ first_word' = second_word
    /\ second_word' = next_word
    /\ LET ctx == <<second_word, next_word>>
           hit == ctx \in DOMAIN trigrams
           key == fallback_key(ctx[1], ctx[2])
       IN /\ lookup' = IF hit THEN [table |-> "tri", key |-> ctx]
                       ELSE [table |-> "bi", key |-> <<key>>]
          /\ IF ~ hit /\ key \notin DOMAIN bigrams
             THEN Raise("KeyError") /\ UNCHANGED <<next_word, result, i>>
             ELSE \E w \in Outcomes(IF hit THEN trigrams[ctx] ELSE bigrams[key]) :
                  IF w = "AssertionError"
                  THEN Raise(w) /\ UNCHANGED <<next_word, result, i>>
                  ELSE /\ next_word' = w
                       /\ result' = result \o <<w, SP>>
                       /\ i' = i + 1
                       /\ UNCHANGED <<pc, exc>>
    /\ UNCHANGED <<model_vars, call_vars, ret, sample_vars>>

TrigramReturn ==
    /\ pc = "tri" /\ ~ (i < trigram_range(num_words))
    /\ ret' = rstrip(result)
    /\ pc' = "returned"
    /\ UNCHANGED <<model_vars, call_vars, first_word, second_word, next_word,
                   i, result, exc, lookup, sample_vars>>

Next ==
    \/ Build
    \/ CallUnigram \/ UnigramStep \/ UnigramReturn
    \/ CallBigram \/ BigramFirst \/ BigramStep \/ BigramReturn
    \/ CallTrigram \/ TrigramFirst \/ TrigramStep \/ TrigramReturn

Spec == Init /\ [][Next]_vars

\* ------------------------------------------- select_random called alone
Dens == {4, 2000000}
Nums(den) == IF den = 4 THEN 1..3 ELSE {1, 999999, 1000000, 1000001}

SampleDists ==
    UNION {UNION {{[w \in S |-> <<f[w], den>>] : f \in [S -> Nums(den)]} :
                  S \in SUBSET Words} : den \in Dens}

Perms(S) ==
    {p \in [1..Cardinality(S) -> S] :
        \A x, y \in 1..Cardinality(S) : x # y => p[x] # p[y]}

InitSample ==
    /\ word_list = <<>>
    /\ unigrams = EmptyDict /\ bigrams = EmptyDict /\ trigrams = EmptyDict
    /\ build_exc = "none"
    /\ pc = "off"
    /\ GenIdle
    /\ distribution \in SampleDists
    /\ order \in Perms(DOMAIN distribution)
    /\ r = NoDraw
    /\ sel_pc = "call"
    /\ sel_ret = ""

\* one call select_random(distribution): the assertion, the draw, the loop
Sample ==
    /\ sel_pc = "call"
    /\ IF ~ sum_close(sum_values(distribution, order, 1))
       THEN r' = NoDraw /\ sel_ret' = "AssertionError"
       ELSE \E x \in random_draws(distribution, order) :
            /\ r' = x
            /\ sel_ret' = select_scan(distribution, order, 1, Zero, x)
    /\ sel_pc' = "done"
    /\ UNCHANGED <<model_vars, call_vars, gen_vars, distribution, order>>

NextSample == Sample

SpecSample == InitSample /\ [][NextSample]_vars

\* ================================================================ claims
Built == pc \notin {"init", "off"}
Out == split(ret)
Ctx == <<first_word, second_word>>

\* C1: in a returned trigram text of 3 or more requested words, every word
\* from the third on lies in the support of the distribution selected by
\* the two words printed just before it: the trigram entry of that pair
\* when the pair is a trigram key, else the bigram entry of the older word.
C1_OutputFollowsPrintedContext ==
    (pc = "returned" /\ fn = "trigram" /\ num_words >= 3) =>
        \A k \in 3..Len(Out) :
            LET ctx == <<Out[k - 2], Out[k - 1]>>
            IN IF ctx \in DOMAIN trigrams
               THEN Out[k] \in DOMAIN trigrams[ctx]
               ELSE /\ ctx[1] \in DOMAIN bigrams
                    /\ Out[k] \in DOMAIN bigrams[ctx[1]]

C3_FailsOnlyWhenFallbackMisses ==
    (fn = "trigram" /\ pc = "raised" /\ exc = "KeyError") =>
        /\ Ctx \notin DOMAIN trigrams
        /\ first_word \notin DOMAIN bigrams

C5_ShortCountRejected ==
    (fn \in {"bigram", "trigram"} /\ num_words < 2) =>
        /\ pc # "returned"
        /\ pc = "raised" => exc = "InvalidArgument"

\* C6: the built bigram model has as keys exactly the words at positions
\* 0..len-2, and maps each key c and follower w to (number of positions
\* where c is followed by w) / (number of positions <= len-2 holding c),
\* w being absent when it never follows c; the trigram model is the same
\* over pairs and positions 0..len-3; shorter lists give the empty model.
Positions2(T) == 1..(Len(T) - 1)
Positions3(T) == 1..(Len(T) - 2)

MLE2(T) ==
    [c \in {T[k] : k \in Positions2(T)} |->
        [w \in {T[k + 1] : k \in {j \in Positions2(T) : T[j] = c}} |->
            <<Cardinality({k \in Positions2(T) : T[k] = c /\ T[k + 1] = w}),
              Cardinality({k \in Positions2(T) : T[k] = c})>>]]

MLE3(T) ==
    [c \in {<<T[k], T[k + 1]>> : k \in Positions3(T)} |->
        [w \in {T[k + 2] : k \in {j \in Positions3(T) : <<T[j], T[j + 1]>> = c}} |->
            <<Cardinality({k \in Positions3(T) :
                             <<T[k], T[k + 1]>> = c /\ T[k + 2] = w}),
              Cardinality({k \in Positions3(T) : <<T[k], T[k + 1]>> = c})>>]]

C6_MaximumLikelihood ==
    Built =>
        /\ DOMAIN bigrams = DOMAIN MLE2(word_list)
        /\ \A c \in DOMAIN bigrams : bigrams[c] = MLE2(word_list)[c]
        /\ DOMAIN trigrams = DOMAIN MLE3(word_list)
        /\ \A c \in DOMAIN trigrams : trigrams[c] = MLE3(word_list)[c]
        /\ Len(word_list) < 2 => DOMAIN bigrams = {}
        /\ Len(word_list) < 3 => DOMAIN trigrams = {}

C6_Witness ==
    /\ Built
    /\ \E c \in DOMAIN bigrams :
         /\ Cardinality(DOMAIN bigrams[c]) >= 2
         /\ \A w \in DOMAIN bigrams[c] : bigrams[c][w][2] >= 2
    /\ DOMAIN trigrams # {}

\* C7 as stated: for values that sum to 1 the call returns the first item
\* of the enumeration whose cumulative sum exceeds r, a key of the
\* distribution; for values that do not sum to 1 it fails before drawing.
SumNum == cum_num(distribution, order, Len(order))
Den == IF Len(order) = 0 THEN 1 ELSE distribution[order[1]][2]
SumIsOne == SumNum = Den
SumFarFromOne == Abs(SumNum - Den) >= (Den + ToleranceInv - 1) \div ToleranceInv

FirstExceeding ==
    order[CHOOSE k \in 1..Len(order) :
            /\ cum_num(distribution, order, k) > r[1]
            /\ \A j \in 1..(k - 1) : cum_num(distribution, order, j) <= r[1]]

InverseCDF ==
    /\ r # NoDraw
    /\ r[1] >= 0 /\ r[1] < r[2]
    /\ sel_ret # "AssertionError"
    /\ sel_ret \in DOMAIN distribution
    /\ sel_ret = FirstExceeding

C7_AsStated ==
    sel_pc = "done" =>
        /\ SumIsOne => InverseCDF
        /\ ~ SumIsOne => (sel_ret = "AssertionError" /\ r = NoDraw)

\* C7 amended: for values whose sum is exactly 1 the call returns the first
\* item of the enumeration whose cumulative sum exceeds r, a key of the
\* distribution, whatever the enumeration order; a sum that differs from 1
\* by 1e-6 or more fails the assertion before any draw; a sum closer to 1
\* than that passes the assertion and a draw is made.
C7_InverseCDF ==
    sel_pc = "done" =>
        /\ SumIsOne => InverseCDF
        /\ SumFarFromOne => (sel_ret = "AssertionError" /\ r = NoDraw)
        /\ ~ SumFarFromOne => r # NoDraw

C7_Witness ==
    /\ sel_pc = "done" /\ SumIsOne
    /\ Len(order) = 3
    /\ order # enumerate(distribution)
    /\ sel_ret = order[2]
    /\ r[1] = cum_num(distribution, order, 1)

\* C8: a bigram call raises exactly when the seed is no key of the model or
\* a drawn word that must be the context of a further draw is no key (such
\* a word occurs in the word list only at its last position); a call that
\* returned used only keys as contexts, its last word excepted; a call that
\* raised returned nothing.
OnlyFinal(T, w) == \A k \in 1..Len(T) : T[k] = w => k = Len(T)

C8_BigramUnknownContext ==
    fn = "bigram" =>
        /\ pc = "raised" =>
            /\ exc = "KeyError"
            /\ ret = NoValue
            /\ \/ seed[1] \notin DOMAIN bigrams /\ result = <<>>
               \/ /\ seed[1] \in DOMAIN bigrams
                  /\ next_word \notin DOMAIN bigrams
                  /\ i < num_words - 2
                  /\ next_word = split(result)[Len(split(result))]
                  /\ OnlyFinal(word_list, next_word)
        /\ pc = "returned" =>
            /\ seed[1] \in DOMAIN bigrams
            /\ \A k \in 1..(Len(Out) - 1) : Out[k] \in DOMAIN bigrams

C8_Witness ==
    /\ fn = "bigram" /\ pc = "raised" /\ exc = "KeyError"
    /\ seed[1] \in DOMAIN bigrams
    /\ next_word \notin DOMAIN bigrams
    /\ Len(split(result)) >= 3

\* C9: building the unigram model of an empty word list raises, and no
\* build returns an empty distribution.
C9_EmptyInputRaises ==
    Built =>
        /\ word_list = <<>> => build_exc # "none"
        /\ build_exc = "none" => DOMAIN unigrams # {}

\* C10: with both models built from one word list whose last word also
\* occurs earlier in it, a trigram call with num_words >= 2 whose seed pair
\* is a trigram key never raises, and every word that becomes the older
\* context word is a key of the bigram model.
FinalRecurs(T) == \E k \in 1..(Len(T) - 1) : T[k] = T[Len(T)]

C10_NoUnknownContext ==
    (fn = "trigram" /\ FinalRecurs(word_list) /\ num_words >= 2
        /\ seed \in DOMAIN trigrams) =>
        /\ pc # "raised"
        /\ exc = "none"
        /\ first_word \in DOMAIN bigrams

C10_Witness ==
    /\ fn = "trigram" /\ FinalRecurs(word_list) /\ num_words >= 2
    /\ seed \in DOMAIN trigrams
    /\ pc = "returned"
    /\ lookup = [table |-> "bi", key |-> <<first_word>>]
    /\ Ctx \notin DOMAIN trigrams

====
